---- MODULE Spec2Model ----
(***************************************************************************)
(* A model of MyPlainKV (package myplainkv, the revision with transaction  *)
(* support): one handle over the KeyValueTBL table of a MySQL backend.     *)
(*                                                                         *)
(* A Go method is an operator from the handle-and-backend state (a record) *)
(* to a result record; a call of a public method is one action.  The       *)
(* backend is the table of committed rows, the private working copy of the *)
(* handle's open transaction, and the number of transactions the handle    *)
(* has begun and lost track of.  Under Spec the DSN is well formed and the  *)
(* backend answers every statement; under SpecFault the DSN may be         *)
(* malformed and the backend may become unreachable, which breaks the      *)
(* connections it held.  db.Close is taken to return nil; row locks and    *)
(* collations are not modelled.                                            *)
(***************************************************************************)
EXTENDS Integers, Sequences, FiniteSets, TLC

(***************************************************************************)
(* Strings and byte slices.  A string is its leading characters (body)     *)
(* followed by fill further bytes "x", so that strings beyond the size     *)
(* limits of set can be written down with the limits at their real values. *)
(***************************************************************************)
Str(body) == [body |-> body, fill |-> 0]

Filler(n) == [body |-> <<>>, fill |-> n]

StrLen(s) == Len(s.body) + s.fill

\* a followed by b, for a without filler bytes
Concat(a, b) == [body |-> a.body \o b.body, fill |-> b.fill]

EmptyStr == Str(<<>>)

defaultBuckt == Str(<<"d", "e", "f", "a", "u", "l", "t">>)

mimeBuckt == Str(<<"-", "-", "m", "i", "m", "e", "-", "-">>)

\* the text of tallyKey before its %s
tallyPrefix == Str(<<"_", "_", "_", "_", "_", "_", "_", "#", "t", "a", "l", "l", "y", "-">>)

defaultMime == Str(<<"t", "e", "x", "t", "/", "h", "t", "m", "l">>)

\* the storage key of a counter were it the caller's key
tallyKeyUnprefixed(key) == key

\* fmt.Sprintf(tallyKey, key)
tallyKey(key) == Concat(tallyPrefix, key)

MaxBucketLen == 50

MaxKeyLen == 300

MaxValueLen == 16777215

(***************************************************************************)
(* strconv.Itoa and strconv.Atoi, on the characters.                       *)
(***************************************************************************)
Digits == <<"0", "1", "2", "3", "4", "5", "6", "7", "8", "9">>

IsDigit(c) == \E d \in 1..10 : Digits[d] = c

DigitVal(c) == (CHOOSE d \in 1..10 : Digits[d] = c) - 1

RECURSIVE NatText(_)
NatText(n) == IF n < 10 THEN <<Digits[n + 1]>>
              ELSE NatText(n \div 10) \o <<Digits[(n % 10) + 1]>>

Itoa(n) == Str(IF n < 0 THEN <<"-">> \o NatText(0 - n) ELSE NatText(n))

RECURSIVE DigitsVal(_, _)
DigitsVal(cs, acc) == IF cs = <<>> THEN acc
                      ELSE DigitsVal(Tail(cs), acc * 10 + DigitVal(Head(cs)))

\* the digits of s after an optional sign
Unsigned(cs) == IF cs # <<>> /\ Head(cs) \in {"+", "-"} THEN Tail(cs) ELSE cs

\* strconv.Atoi's error is nil
AtoiOK(s) == /\ s.fill = 0
             /\ Unsigned(s.body) # <<>>
             /\ \A i \in 1..Len(Unsigned(s.body)) : IsDigit(Unsigned(s.body)[i])

\* tvv, _ := strconv.Atoi(tv): 0 on a syntax error
Atoi(s) == IF ~AtoiOK(s) THEN 0
           ELSE IF Head(s.body) = "-" THEN 0 - DigitsVal(Unsigned(s.body), 0)
           ELSE DigitsVal(Unsigned(s.body), 0)

(***************************************************************************)
(* Errors.                                                                 *)
(***************************************************************************)
Nil == "nil"

ErrBucketIdTooLong == "bucket id too long"

ErrKeyTooLong == "key too long"

ErrValueTooLong == "value too large"

ErrTxDone == "sql: transaction has already been committed or rolled back"

\* database/sql, when a statement's placeholders and arguments differ in number
ErrArgCount == "sql: expected 4 arguments, got 3"

\* sql.Open cannot parse the DSN
ErrDSN == "invalid DSN: missing the slash separating the database name"

\* a statement or Begin on p.db finds the backend unreachable
ErrConn == "dial tcp: connect: connection refused"

\* a statement, Commit or Rollback on a transaction whose connection broke
ErrInvalidConn == "invalid connection"

\* a nil *sql.DB or *sql.Tx is dereferenced: the goroutine panics
Panic == "panic: invalid memory address or nil pointer dereference"

(***************************************************************************)
(* The rows of KeyValueTBL: a function from <<Bucket, KeyID>>, the primary *)
(* key, to Value.                                                          *)
(***************************************************************************)
NoRows == <<>>

HasRow(t, bucket, key) == <<bucket, key>> \in DOMAIN t

UpsertRow(t, bucket, key, value) ==
    [x \in DOMAIN t \cup {<<bucket, key>>} |->
        IF x = <<bucket, key>> THEN value ELSE t[x]]

DeleteRow(t, bucket, key) == [x \in DOMAIN t \ {<<bucket, key>>} |-> t[x]]

(***************************************************************************)
(* The state an operator works on: the fields of MyPlainKV and the backend.*)
(*   db      "nil" or "open": p.db                                         *)
(*   tx      "nil", "active", "broken" or "done": p.tx is nil, or points   *)
(*           at a transaction that is open, or whose connection broke, or  *)
(*           that was committed or rolled back                             *)
(*   dsnOK   sql.Open can parse p.DSN                                      *)
(*   reachable  the backend accepts connections                            *)
(*   table   the committed rows                                            *)
(*   txTable the rows as the open transaction p.tx sees them               *)
(*   leaked  the open transactions of p.db that p.tx no longer points at   *)
(* A result carries the state after the call, the returned error and       *)
(* values, the contexts its statements ran on (route), the Bucket          *)
(* arguments of the statements it issued (buckets) and the write           *)
(* statements the backend executed (writes).                               *)
(***************************************************************************)
Res0(s) == [s |-> s, err |-> Nil, val |-> EmptyStr, n |-> 0, keys |-> {},
            route |-> {}, buckets |-> {}, writes |-> <<>>]

ErrNoRows == "sql: no rows in result set"

\* if p.inTransaction { p.tx... } else { p.db... }
Ctx(s) == IF s.inTransaction THEN "tx" ELSE "db"

\* what using the context yields before the statement reaches the backend
CtxErr(s, ctx) ==
    IF ctx = "tx"
    THEN (IF s.tx = "nil" THEN Panic
          ELSE IF s.tx = "done" THEN ErrTxDone
          ELSE IF s.tx = "broken" THEN ErrInvalidConn
          ELSE Nil)
    ELSE (IF s.db = "nil" THEN Panic
          ELSE IF ~s.reachable THEN ErrConn
          ELSE Nil)

Rows(s, ctx) == IF ctx = "tx" THEN s.txTable ELSE s.table

WithRows(s, ctx, t) ==
    IF ctx = "tx" THEN [s EXCEPT !.txTable = t] ELSE [s EXCEPT !.table = t]

\* QueryRow(`SELECT Value FROM KeyValueTBL WHERE Bucket=? AND KeyID=?;`).Scan(&val)
QueryRow(s, ctx, bucket, key) ==
    IF CtxErr(s, ctx) # Nil THEN [err |-> CtxErr(s, ctx), val |-> EmptyStr]
    ELSE IF HasRow(Rows(s, ctx), bucket, key)
         THEN [err |-> Nil, val |-> Rows(s, ctx)[<<bucket, key>>]]
         ELSE [err |-> ErrNoRows, val |-> EmptyStr]

\* the placeholders of `INSERT INTO KeyValueTBL VALUES (?, ?, ?)
\* ON DUPLICATE KEY UPDATE Value=?;`
UpsertPlaceholders == 4

\* Exec of that statement were it to take its three arguments
ExecUpsertThree(s, ctx, args) ==
    IF CtxErr(s, ctx) # Nil
    THEN [Res0(s) EXCEPT !.err = CtxErr(s, ctx), !.buckets = {args[1]}]
    ELSE [Res0(WithRows(s, ctx, UpsertRow(Rows(s, ctx), args[1], args[2], args[3])))
            EXCEPT !.route = {ctx},
                   !.buckets = {args[1]},
                   !.writes = <<[kind |-> "put", bucket |-> args[1],
                                 key |-> args[2], value |-> args[3]]>>]

\* Exec of that statement with the arguments args: database/sql refuses a
\* statement whose arguments are not as many as its placeholders
ExecUpsert(s, ctx, args) ==
    IF CtxErr(s, ctx) # Nil
    THEN [Res0(s) EXCEPT !.err = CtxErr(s, ctx), !.buckets = {args[1]}]
    ELSE IF Len(args) # UpsertPlaceholders
         THEN [Res0(s) EXCEPT !.err = ErrArgCount, !.route = {ctx},
                              !.buckets = {args[1]}]
         ELSE LET stored == IF HasRow(Rows(s, ctx), args[1], args[2])
                            THEN args[4] ELSE args[3]
              IN [Res0(WithRows(s, ctx, UpsertRow(Rows(s, ctx), args[1], args[2], stored)))
                    EXCEPT !.route = {ctx},
                           !.buckets = {args[1]},
                           !.writes = <<[kind |-> "put", bucket |-> args[1],
                                         key |-> args[2], value |-> stored]>>]

\* Exec(`DELETE FROM KeyValueTBL WHERE Bucket = ? AND KeyID = ?;`, bucket, key)
ExecDelete(s, ctx, bucket, key) ==
    IF CtxErr(s, ctx) # Nil
    THEN [Res0(s) EXCEPT !.err = CtxErr(s, ctx), !.buckets = {bucket}]
    ELSE [Res0(WithRows(s, ctx, DeleteRow(Rows(s, ctx), bucket, key)))
            EXCEPT !.route = {ctx},
                   !.buckets = {bucket},
                   !.writes = <<[kind |-> "del", bucket |-> bucket,
                                 key |-> key, value |-> EmptyStr]>>]

(***************************************************************************)
(* Open, Close and the transaction methods.                                *)
(***************************************************************************)
\* sql.Open parses the DSN and connects to nothing; the error of the
\* CREATE TABLE IF NOT EXISTS that follows is dropped
Open(s) ==
    IF s.db # "nil" THEN Res0(s)
    ELSE IF ~s.dsnOK
         THEN [Res0([s EXCEPT !.inTransaction = FALSE]) EXCEPT !.err = ErrDSN]
    ELSE Res0([s EXCEPT !.inTransaction = FALSE, !.db = "open"])

\* Close as it was when it returned p.db.Close() and kept p.db
CloseKeepsDb(s) ==
    IF s.db = "nil" THEN Res0([s EXCEPT !.tx = "nil"])
    ELSE Res0([s EXCEPT !.tx = "nil", !.txTable = NoRows, !.leaked = 0])

\* p.db.Close() is taken to return nil.  No transaction begun on the handle
\* can be committed once p.tx and p.db are gone: their rows are dropped
Close(s) ==
    IF s.db = "nil" THEN Res0([s EXCEPT !.tx = "nil"])
    ELSE Res0([s EXCEPT !.tx = "nil", !.db = "nil", !.txTable = NoRows, !.leaked = 0])

\* a method without the deferred Close
DeferredNever(r) == r

\* if p.autoClose { defer p.Close() }
Deferred(r) == IF r.s.autoClose THEN [r EXCEPT !.s = Close(r.s).s] ELSE r

\* p.tx, err = p.db.Begin(): p.tx is assigned also when err is not nil
Begin(s) ==
    IF s.db = "nil" THEN [Res0(s) EXCEPT !.err = Panic]
    ELSE IF ~s.reachable
         THEN [Res0([s EXCEPT !.tx = "nil", !.txTable = NoRows]) EXCEPT !.err = ErrConn]
    ELSE Res0([s EXCEPT !.tx = "active", !.txTable = s.table,
                        !.leaked = s.leaked + (IF s.tx = "active" THEN 1 ELSE 0),
                        !.inTransaction = TRUE])

\* Commit without its p.inTransaction = false
CommitKeepsFlag(s) ==
    IF s.tx = "nil" THEN Res0(s)
    ELSE IF s.tx = "done" THEN [Res0(s) EXCEPT !.err = ErrTxDone]
    ELSE IF s.tx = "broken"
         THEN [Res0([s EXCEPT !.tx = "done"]) EXCEPT !.err = ErrInvalidConn]
    ELSE Res0([s EXCEPT !.table = s.txTable, !.txTable = NoRows, !.tx = "done"])

Commit(s) ==
    IF s.tx = "nil" THEN Res0(s)
    ELSE IF s.tx = "done" THEN [Res0(s) EXCEPT !.err = ErrTxDone]
    ELSE IF s.tx = "broken"
         THEN [Res0([s EXCEPT !.tx = "done"]) EXCEPT !.err = ErrInvalidConn]
    ELSE Res0([s EXCEPT !.table = s.txTable, !.txTable = NoRows, !.tx = "done",
                        !.inTransaction = FALSE])

Rollback(s) ==
    IF s.tx = "nil" THEN Res0(s)
    ELSE IF s.tx = "done" THEN [Res0(s) EXCEPT !.err = ErrTxDone]
    ELSE IF s.tx = "broken"
         THEN [Res0([s EXCEPT !.tx = "done"]) EXCEPT !.err = ErrInvalidConn]
    ELSE Res0([s EXCEPT !.txTable = NoRows, !.tx = "done", !.inTransaction = FALSE])

(***************************************************************************)
(* get and set, and the methods built on them.                             *)
(***************************************************************************)
get(s, bucket, key) ==
    IF Open(s).err # Nil THEN Open(s)
    ELSE LET s1 == Open(s).s
             b == IF bucket = EmptyStr THEN defaultBuckt ELSE bucket
             q == QueryRow(s1, Ctx(s1), b, key)
         IN Deferred(IF q.err \notin {Nil, ErrNoRows}
                     THEN [Res0(s1) EXCEPT !.err = q.err, !.buckets = {b}]
                     ELSE [Res0(s1) EXCEPT !.val = q.val, !.route = {Ctx(s1)},
                                           !.buckets = {b}])

\* set as it would be without its check of the key's length
setKeyUnchecked(s, bucket, key, value) ==
    IF Open(s).err # Nil THEN Open(s)
    ELSE LET s1 == Open(s).s
         IN Deferred(IF StrLen(bucket) > MaxBucketLen
                     THEN [Res0(s1) EXCEPT !.err = ErrBucketIdTooLong]
                     ELSE IF StrLen(value) > MaxValueLen
                     THEN [Res0(s1) EXCEPT !.err = ErrValueTooLong]
                     ELSE ExecUpsert(s1, Ctx(s1), <<bucket, key, value>>))

set(s, bucket, key, value) ==
    IF Open(s).err # Nil THEN Open(s)
    ELSE LET s1 == Open(s).s
         IN Deferred(IF StrLen(bucket) > MaxBucketLen
                     THEN [Res0(s1) EXCEPT !.err = ErrBucketIdTooLong]
                     ELSE IF StrLen(key) > MaxKeyLen
                     THEN [Res0(s1) EXCEPT !.err = ErrKeyTooLong]
                     ELSE IF StrLen(value) > MaxValueLen
                     THEN [Res0(s1) EXCEPT !.err = ErrValueTooLong]
                     ELSE ExecUpsert(s1, Ctx(s1), <<bucket, key, value>>))

Get(s, key) == get(s, s.currBuckt, key)

GetMime(s, key) ==
    LET r == get(s, mimeBuckt, key)
    IN IF r.err # Nil \/ StrLen(r.val) = 0 THEN [r EXCEPT !.val = defaultMime] ELSE r

\* if p.currBuckt == "" { p.currBuckt = "default" }
Defaulted(s) ==
    IF s.currBuckt = EmptyStr THEN [s EXCEPT !.currBuckt = defaultBuckt] ELSE s

\* Set with its Close deferred whatever the auto-close setting
SetThenClose(s, key, value) ==
    LET r == set(Defaulted(s), Defaulted(s).currBuckt, key, value)
    IN [r EXCEPT !.s = Close(r.s).s]

Set(s, key, value) == set(Defaulted(s), Defaulted(s).currBuckt, key, value)

SetMime(s, key, mime) == set(s, mimeBuckt, key, mime)

SetBucket(s, bucket) == Res0([s EXCEPT !.currBuckt = bucket])

Del(s, key) ==
    IF Open(s).err # Nil THEN Open(s)
    ELSE LET s1 == Defaulted(Open(s).s)
             d1 == ExecDelete(s1, Ctx(s1), s1.currBuckt, key)
             d2 == ExecDelete(d1.s, Ctx(s1), mimeBuckt, key)
         IN Deferred(IF d1.err # Nil THEN d1
                     ELSE [d2 EXCEPT !.route = d1.route \cup d2.route,
                                     !.buckets = d1.buckets \cup d2.buckets,
                                     !.writes = d1.writes \o d2.writes])

\* the backend stops answering: what that does to the handle's state
Unreachable(s) ==
    [s EXCEPT !.reachable = FALSE,
              !.tx = IF s.tx = "active" THEN "broken" ELSE s.tx,
              !.txTable = NoRows,
              !.leaked = 0]

\* Del interrupted were it to drop the error of its second delete
DelInterruptedSilent(s, key) ==
    IF Open(s).err # Nil THEN Open(s)
    ELSE LET s1 == Defaulted(Open(s).s)
             d1 == ExecDelete(s1, Ctx(s1), s1.currBuckt, key)
             d2 == ExecDelete(Unreachable(d1.s), Ctx(s1), mimeBuckt, key)
         IN Deferred(IF d1.err # Nil THEN d1
                     ELSE [d2 EXCEPT !.err = Nil,
                                     !.route = d1.route \cup d2.route,
                                     !.buckets = d1.buckets \cup d2.buckets,
                                     !.writes = d1.writes \o d2.writes])

\* Del during which the backend stops answering, after the first delete and
\* before the second
DelInterrupted(s, key) ==
    IF Open(s).err # Nil THEN Open(s)
    ELSE LET s1 == Defaulted(Open(s).s)
             d1 == ExecDelete(s1, Ctx(s1), s1.currBuckt, key)
             d2 == ExecDelete(Unreachable(d1.s), Ctx(s1), mimeBuckt, key)
         IN Deferred(IF d1.err # Nil THEN d1
                     ELSE [d2 EXCEPT !.route = d1.route \cup d2.route,
                                     !.buckets = d1.buckets \cup d2.buckets,
                                     !.writes = d1.writes \o d2.writes])

\* the characters of a string, its filler bytes written out
Chars(str) == str.body \o [i \in 1..str.fill |-> "x"]

\* MySQL's LIKE on the characters: % is any run, _ any one character, \ escapes
RECURSIVE Like(_, _)
Like(pat, cs) ==
    IF pat = <<>> THEN cs = <<>>
    ELSE IF Head(pat) = "%"
         THEN Like(Tail(pat), cs) \/ (cs # <<>> /\ Like(pat, Tail(cs)))
    ELSE IF cs = <<>> THEN FALSE
    ELSE IF Head(pat) = "_" THEN Like(Tail(pat), Tail(cs))
    ELSE IF Head(pat) = "\\" /\ Len(pat) > 1
         THEN Head(cs) = pat[2] /\ Like(Tail(Tail(pat)), Tail(cs))
    ELSE Head(cs) = Head(pat) /\ Like(Tail(pat), Tail(cs))

\* the keys are returned in the backend's order: the model keeps their set
ListKeys(s, pattern) ==
    IF Open(s).err # Nil THEN Open(s)
    ELSE LET s1 == Defaulted(Open(s).s)
             ctx == Ctx(s1)
         IN Deferred(IF CtxErr(s1, ctx) # Nil
                     THEN [Res0(s1) EXCEPT !.err = CtxErr(s1, ctx),
                                           !.buckets = {s1.currBuckt}]
                     ELSE [Res0(s1) EXCEPT
                             !.route = {ctx},
                             !.buckets = {s1.currBuckt},
                             !.keys = {x[2] : x \in
                                 {y \in DOMAIN Rows(s1, ctx) :
                                     /\ y[1] = s1.currBuckt
                                     /\ Like(Chars(pattern) \o <<"%">>, Chars(y[2]))}}])

\* r2 follows r1 in one method: the statements of both
Then(r1, r2) == [r2 EXCEPT !.route = r1.route \cup r2.route,
                           !.buckets = r1.buckets \cup r2.buckets,
                           !.writes = r1.writes \o r2.writes]

\* return n, err
Ret(r, n) == [r EXCEPT !.n = n, !.val = EmptyStr]

\* Tally as it would be if it returned offset for a counter already stored
TallyReturnsOffset(s, key, offset) ==
    LET tk == tallyKey(key)
        tlly == get(s, s.currBuckt, tk)
        init == set(tlly.s, tlly.s.currBuckt, tk, Itoa(offset))
    IN IF tlly.err # Nil THEN Ret(tlly, -1)
       ELSE IF StrLen(tlly.val) = 0
            THEN (IF init.err # Nil THEN Ret(Then(tlly, init), -1)
                  ELSE Ret(Then(tlly, init), Atoi(tlly.val)))
       ELSE Ret(tlly, offset)

Tally(s, key, offset) ==
    LET tk == tallyKey(key)
        tlly == get(s, s.currBuckt, tk)
        init == set(tlly.s, tlly.s.currBuckt, tk, Itoa(offset))
    IN IF tlly.err # Nil THEN Ret(tlly, -1)
       ELSE IF StrLen(tlly.val) = 0
            THEN (IF init.err # Nil THEN Ret(Then(tlly, init), -1)
                  ELSE Ret(Then(tlly, init), Atoi(tlly.val)))
       ELSE Ret(tlly, Atoi(tlly.val))

TallyIncr(s, key) ==
    LET tlly == Tally(s, key, 0)
        w == set(tlly.s, tlly.s.currBuckt, tallyKey(key), Itoa(tlly.n + 1))
    IN IF tlly.err # Nil THEN tlly
       ELSE IF w.err # Nil THEN Ret(Then(tlly, w), tlly.n)
       ELSE Ret(Then(tlly, w), tlly.n + 1)

TallyDecr(s, key) ==
    LET tlly == Tally(s, key, 0)
        w == set(tlly.s, tlly.s.currBuckt, tallyKey(key), Itoa(tlly.n - 1))
    IN IF tlly.err # Nil THEN tlly
       ELSE IF w.err # Nil THEN Ret(Then(tlly, w), tlly.n)
       ELSE Ret(Then(tlly, w), tlly.n - 1)

TallyReset(s, key) == set(s, s.currBuckt, tallyKey(key), Itoa(0))

(***************************************************************************)
(* The inputs of the calls and the rows the table may hold at the start.   *)
(***************************************************************************)
\* the largest offset passed to Tally
MaxOffset == 5

\* the largest counter found in the table at the start
MaxInitTally == 12

\* the transactions a handle may lose track of before it closes its connection
MaxLeaked == 1

aKey == Str(<<"k">>)

Keys == {aKey, Filler(MaxKeyLen + 1)}

\* the longest caller key whose tally key passes the key limit of set
MaxTallyKeyLen == MaxKeyLen - StrLen(tallyPrefix)

\* a key of the shape of a tally key, and keys at the limits of the tally
\* operations and of set
EdgeKeys == {tallyKey(aKey), Filler(MaxTallyKeyLen), Filler(MaxTallyKeyLen + 1),
             Filler(MaxKeyLen)}

Buckets == {EmptyStr, defaultBuckt, Str(<<"b">>), Filler(MaxBucketLen + 1)}

Values == {EmptyStr, Str(<<"a">>), Filler(MaxValueLen + 1)}

Mimes == {Str(<<"m">>), Filler(MaxValueLen + 1)}

Offsets == {0, MaxOffset}

Patterns == {EmptyStr, aKey, Str(<<"_">>)}

InitTallies == {-3, MaxInitTally}

OptRow(t, present, bucket, key, value) ==
    IF present THEN UpsertRow(t, bucket, key, value) ELSE t

\* KeyValueTBL outlives a handle: Open creates it only IF NOT EXISTS, and the
\* rows found at the start are rows an earlier session left there
InitTables ==
    {OptRow(OptRow(OptRow(NoRows, d, defaultBuckt, aKey, Str(<<"a">>)),
                   m, mimeBuckt, aKey, Str(<<"m">>)),
            t # <<>>, defaultBuckt, tallyKey(aKey), Itoa(IF t # <<>> THEN t[1] ELSE 0))
        : d \in BOOLEAN, m \in BOOLEAN, t \in {<<>>} \cup {<<n>> : n \in InitTallies}}

(***************************************************************************)
(* The state machine.                                                      *)
(*   alive  the process has not panicked                                   *)
(*   last   the last call: its method, arguments and what it returned      *)
(*   scope  the caller's transaction scope: open from a Begin that         *)
(*          returned nil until Commit or Rollback is called, with the      *)
(*          committed rows at that Begin (base) and those rows with the    *)
(*          write statements executed since then applied (view)            *)
(*   race   two further handles on the same table, each in one call of     *)
(*          TallyIncr made statement by statement: where each call stands  *)
(*          (call), the rows at the start (base) and whether a handle ran  *)
(*          a statement while the other was inside its call (overlap)      *)
(***************************************************************************)
VARIABLES db, tx, inTransaction, currBuckt, autoClose, table, txTable, leaked,
          dsnOK, reachable, alive, last, scope, race

vars == <<db, tx, inTransaction, currBuckt, autoClose, table, txTable, leaked,
          dsnOK, reachable, alive, last, scope, race>>

Here == [db |-> db, tx |-> tx, inTransaction |-> inTransaction,
         currBuckt |-> currBuckt, autoClose |-> autoClose, table |-> table,
         txTable |-> txTable, leaked |-> leaked, dsnOK |-> dsnOK,
         reachable |-> reachable]

NoScope == [open |-> FALSE, base |-> NoRows, view |-> NoRows]

RECURSIVE ApplyWrites(_, _)
ApplyWrites(t, ws) ==
    IF ws = <<>> THEN t
    ELSE ApplyWrites(IF Head(ws).kind = "put"
                     THEN UpsertRow(t, Head(ws).bucket, Head(ws).key, Head(ws).value)
                     ELSE DeleteRow(t, Head(ws).bucket, Head(ws).key),
                     Tail(ws))

ScopeAfter(op, r) ==
    IF op = "Begin" THEN (IF r.err = Nil
                          THEN [open |-> TRUE, base |-> table, view |-> table]
                          ELSE scope)
    ELSE IF op \in {"Commit", "Rollback"} THEN NoScope
    ELSE IF scope.open THEN [scope EXCEPT !.view = ApplyWrites(scope.view, r.writes)]
    ELSE scope

\* the call op(key, arg, num) returns r
Call(op, key, arg, num, r) ==
    /\ alive
    /\ alive' = (r.err # Panic)
    /\ db' = r.s.db
    /\ tx' = r.s.tx
    /\ inTransaction' = r.s.inTransaction
    /\ currBuckt' = r.s.currBuckt
    /\ autoClose' = r.s.autoClose
    /\ table' = r.s.table
    /\ txTable' = r.s.txTable
    /\ leaked' = r.s.leaked
    /\ dsnOK' = r.s.dsnOK
    /\ reachable' = r.s.reachable
    /\ last' = [op |-> op, key |-> key, arg |-> arg, num |-> num, err |-> r.err,
                val |-> r.val, n |-> r.n, keys |-> r.keys, route |-> r.route,
                buckets |-> r.buckets]
    /\ scope' = ScopeAfter(op, r)
    /\ race' = race

\* the record of a step that is no call with results
NoCall(op) == [op |-> op, key |-> EmptyStr, arg |-> EmptyStr, num |-> 0,
               err |-> Nil, val |-> EmptyStr, n |-> 0, keys |-> {}, route |-> {},
               buckets |-> {}]

Handles == {1, 2}

\* a handle as NewMyPlainKV returns it, about to call TallyIncr
NewCall(ac) == [db |-> "nil", autoClose |-> ac, pc |-> "start", tlly |-> EmptyStr,
                n |-> 0, err |-> Nil]

\* no further handle calls anything
NoRace == [base |-> NoRows, overlap |-> FALSE, call |-> [h \in Handles |-> NewCall(FALSE)]]

\* NewMyPlainKV(dsn, autoClose) on a handle struct that is new
NewMyPlainKV ==
    /\ db = "nil"
    /\ tx = "nil"
    /\ inTransaction = FALSE
    /\ currBuckt = defaultBuckt
    /\ autoClose \in BOOLEAN
    /\ table \in InitTables
    /\ txTable = NoRows
    /\ leaked = 0
    /\ alive = TRUE
    /\ last = NoCall("New")
    /\ scope = NoScope
    /\ race = NoRace

\* a well-formed DSN and a backend that answers
Init ==
    /\ NewMyPlainKV
    /\ dsnOK = TRUE
    /\ reachable = TRUE

\* any DSN, and a backend that answers for now
InitFault ==
    /\ NewMyPlainKV
    /\ dsnOK \in BOOLEAN
    /\ reachable = TRUE

CallOpen == Call("Open", EmptyStr, EmptyStr, 0, Open(Here))

CallClose == Call("Close", EmptyStr, EmptyStr, 0, Close(Here))

CallBegin == /\ ~(tx = "active" /\ leaked >= MaxLeaked)
             /\ Call("Begin", EmptyStr, EmptyStr, 0, Begin(Here))

CallCommit == Call("Commit", EmptyStr, EmptyStr, 0, Commit(Here))

CallRollback == Call("Rollback", EmptyStr, EmptyStr, 0, Rollback(Here))

CallSetBucket == \E b \in Buckets : Call("SetBucket", EmptyStr, b, 0, SetBucket(Here, b))

CallGet == \E k \in Keys : Call("Get", k, EmptyStr, 0, Get(Here, k))

CallGetMime == \E k \in Keys : Call("GetMime", k, EmptyStr, 0, GetMime(Here, k))

CallSet == \E k \in Keys, v \in Values : Call("Set", k, v, 0, Set(Here, k, v))

CallSetMime == \E k \in Keys, m \in Mimes : Call("SetMime", k, m, 0, SetMime(Here, k, m))

CallDel == \E k \in Keys : Call("Del", k, EmptyStr, 0, Del(Here, k))

CallListKeys == \E pat \in Patterns : Call("ListKeys", EmptyStr, pat, 0, ListKeys(Here, pat))

CallTally == \E k \in Keys, o \in Offsets : Call("Tally", k, EmptyStr, o, Tally(Here, k, o))

CallTallyIncr == \E k \in Keys : Call("TallyIncr", k, EmptyStr, 0, TallyIncr(Here, k))

CallTallyDecr == \E k \in Keys : Call("TallyDecr", k, EmptyStr, 0, TallyDecr(Here, k))

CallTallyReset == \E k \in Keys : Call("TallyReset", k, EmptyStr, 0, TallyReset(Here, k))

Next ==
    \/ CallOpen
    \/ CallClose
    \/ CallBegin
    \/ CallCommit
    \/ CallRollback
    \/ CallSetBucket
    \/ CallGet
    \/ CallGetMime
    \/ CallSet
    \/ CallSetMime
    \/ CallDel
    \/ CallListKeys
    \/ CallTally
    \/ CallTallyIncr
    \/ CallTallyDecr
    \/ CallTallyReset

Spec == Init /\ [][Next]_vars

\* the calls that take a key, made with the keys of EdgeKeys
EdgeGet == \E k \in EdgeKeys : Call("Get", k, EmptyStr, 0, Get(Here, k))

EdgeGetMime == \E k \in EdgeKeys : Call("GetMime", k, EmptyStr, 0, GetMime(Here, k))

EdgeSet == \E k \in EdgeKeys, v \in Values : Call("Set", k, v, 0, Set(Here, k, v))

EdgeSetMime == \E k \in EdgeKeys, m \in Mimes : Call("SetMime", k, m, 0, SetMime(Here, k, m))

EdgeDel == \E k \in EdgeKeys : Call("Del", k, EmptyStr, 0, Del(Here, k))

EdgeTally == \E k \in EdgeKeys, o \in Offsets : Call("Tally", k, EmptyStr, o, Tally(Here, k, o))

EdgeTallyIncr == \E k \in EdgeKeys : Call("TallyIncr", k, EmptyStr, 0, TallyIncr(Here, k))

EdgeTallyDecr == \E k \in EdgeKeys : Call("TallyDecr", k, EmptyStr, 0, TallyDecr(Here, k))

EdgeTallyReset == \E k \in EdgeKeys : Call("TallyReset", k, EmptyStr, 0, TallyReset(Here, k))

NextEdge ==
    \/ CallOpen
    \/ CallClose
    \/ CallBegin
    \/ CallCommit
    \/ CallRollback
    \/ CallSetBucket
    \/ CallListKeys
    \/ EdgeGet
    \/ EdgeGetMime
    \/ EdgeSet
    \/ EdgeSetMime
    \/ EdgeDel
    \/ EdgeTally
    \/ EdgeTallyIncr
    \/ EdgeTallyDecr
    \/ EdgeTallyReset

SpecEdge == Init /\ [][NextEdge]_vars

\* the backend stops answering: the transactions it held are gone and the
\* connections they ran on are broken
Outage ==
    /\ alive
    /\ reachable
    /\ reachable' = FALSE
    /\ tx' = IF tx = "active" THEN "broken" ELSE tx
    /\ txTable' = NoRows
    /\ leaked' = 0
    /\ last' = NoCall("Outage")
    /\ UNCHANGED <<db, inTransaction, currBuckt, autoClose, table, dsnOK, alive, scope,
                   race>>

\* the backend answers again
Recovery ==
    /\ alive
    /\ ~reachable
    /\ reachable' = TRUE
    /\ last' = NoCall("Recovery")
    /\ UNCHANGED <<db, tx, inTransaction, currBuckt, autoClose, table, txTable,
                   leaked, dsnOK, alive, scope, race>>

\* a Del whose first delete the backend executes and whose second it does not
CallDelInterrupted ==
    /\ reachable
    /\ \E k \in Keys : Call("Del", k, EmptyStr, 0, DelInterrupted(Here, k))

NextFault ==
    \/ Next
    \/ Outage
    \/ Recovery
    \/ CallDelInterrupted

SpecFault == InitFault /\ [][NextFault]_vars

\* two handles built on the same DSN, over the rows an earlier session left
InitTwo ==
    /\ db = "nil"
    /\ tx = "nil"
    /\ inTransaction = FALSE
    /\ currBuckt = defaultBuckt
    /\ autoClose = FALSE
    /\ table \in InitTables
    /\ txTable = NoRows
    /\ leaked = 0
    /\ dsnOK = TRUE
    /\ reachable = TRUE
    /\ alive = TRUE
    /\ last = NoCall("New")
    /\ scope = NoScope
    /\ \E ac \in [Handles -> BOOLEAN] :
          race = [base |-> table, overlap |-> FALSE,
                  call |-> [h \in Handles |-> NewCall(ac[h])]]

\* handle h and the backend, as the methods see them
HandleState(h) ==
    [db |-> race.call[h].db, tx |-> "nil", inTransaction |-> FALSE,
     currBuckt |-> defaultBuckt, autoClose |-> race.call[h].autoClose,
     table |-> table, txTable |-> NoRows, leaked |-> 0, dsnOK |-> dsnOK,
     reachable |-> reachable]

\* handle h is inside its call
Busy(h) == race.call[h].pc \notin {"start", "done"}

\* a statement of handle h's call has returned r and the call goes on at pc
\* with the counter text tlly and number n, or has returned err
Statement(h, r, pc, tlly, n, err) ==
    /\ table' = r.s.table
    /\ race' = [race EXCEPT
                  !.overlap = @ \/ \E g \in Handles \ {h} : Busy(g),
                  !.call[h] = [db |-> r.s.db, autoClose |-> r.s.autoClose,
                               pc |-> pc, tlly |-> tlly, n |-> n, err |-> err]]
    /\ UNCHANGED <<db, tx, inTransaction, currBuckt, autoClose, txTable, leaked,
                   dsnOK, reachable, alive, last, scope>>

\* TallyIncr(aKey) of handle h: the get of its Tally(key, 0)
TallyIncrRead(h) ==
    /\ race.call[h].pc = "start"
    /\ LET s == HandleState(h)
           r == get(s, s.currBuckt, tallyKey(aKey))
       IN IF r.err # Nil THEN Statement(h, r, "done", r.val, -1, r.err)
          ELSE IF StrLen(r.val) = 0 THEN Statement(h, r, "init", r.val, 0, Nil)
          ELSE Statement(h, r, "write", r.val, Atoi(r.val), Nil)

\* the initialising set of its Tally(key, 0)
TallyIncrInit(h) ==
    /\ race.call[h].pc = "init"
    /\ LET s == HandleState(h)
           c == race.call[h]
           r == set(s, s.currBuckt, tallyKey(aKey), Itoa(0))
       IN IF r.err # Nil THEN Statement(h, r, "done", c.tlly, -1, r.err)
          ELSE Statement(h, r, "write", c.tlly, Atoi(c.tlly), Nil)

\* its set of tlly+1
TallyIncrWrite(h) ==
    /\ race.call[h].pc = "write"
    /\ LET s == HandleState(h)
           c == race.call[h]
           r == set(s, s.currBuckt, tallyKey(aKey), Itoa(c.n + 1))
       IN IF r.err # Nil THEN Statement(h, r, "done", c.tlly, c.n, r.err)
          ELSE Statement(h, r, "done", c.tlly, c.n + 1, Nil)

NextTwo ==
    \/ \E h \in Handles : TallyIncrRead(h)
    \/ \E h \in Handles : TallyIncrInit(h)
    \/ \E h \in Handles : TallyIncrWrite(h)

SpecTwo == InitTwo /\ [][NextTwo]_vars

(***************************************************************************)
(* What the claims speak of.                                               *)
(***************************************************************************)
\* the bucket the current bucket stands for
EffBucket == IF currBuckt = EmptyStr THEN defaultBuckt ELSE currBuckt

\* the rows the handle's next statement works on
VisibleRows == IF db # "nil" /\ inTransaction /\ tx = "active" THEN txTable ELSE table

DataOps == {"Get", "GetMime", "Set", "SetMime", "Del", "ListKeys",
            "Tally", "TallyIncr", "TallyDecr", "TallyReset"}

\* the counter of key in the current bucket is stored
Counted(key) == HasRow(VisibleRows, EffBucket, tallyKey(key))

Counter(key) == VisibleRows[<<EffBucket, tallyKey(key)>>]

\* the same after the step
CountedAfter(key) == HasRow(VisibleRows', EffBucket', tallyKey(key))

CounterAfter(key) == VisibleRows'[<<EffBucket', tallyKey(key)>>]

\* a tally call on key passes the size limits of set
TallyFits(key) == /\ StrLen(EffBucket) <= MaxBucketLen
                  /\ StrLen(tallyKey(key)) <= MaxKeyLen

Counters == (0 - MaxInitTally - 1)..(MaxInitTally + 1)

\* C1: with no transaction open, Set(key, value) within the size limits
\* followed by Get(key) under the same current bucket returns no error twice
\* and Get returns exactly value.
C1_SetThenGet ==
    [][(/\ last.op = "Set"
        /\ tx # "active"
        /\ ~scope.open
        /\ StrLen(currBuckt) <= MaxBucketLen
        /\ StrLen(last.key) <= MaxKeyLen
        /\ StrLen(last.arg) <= MaxValueLen
        /\ last'.op = "Get"
        /\ last'.key = last.key)
       => (last.err = Nil /\ last'.err = Nil /\ last'.val = last.arg)]_vars

\* C2: a Rollback that returns nil in a transaction scope leaves the
\* committed rows as they were at the scope's Begin, and a Commit that
\* returns nil leaves them with every write statement executed in the scope
\* applied.
C2_ScopeVisibility ==
    [][(scope.open /\ last'.err = Nil)
       => /\ (last'.op = "Rollback" => table' = scope.base)
          /\ (last'.op = "Commit" => table' = scope.view)]_vars

\* C3: from a Begin that returned nil until Commit or Rollback is called, no
\* statement of a data operation runs on the plain connection.
C3_RoutedToTransaction ==
    [][(scope.open /\ last'.op \in DataOps) => last'.route \subseteq {"tx"}]_vars

\* C4: Tally(key, offset) on a counter with no stored record returns offset
\* with no error and stores the text of offset.
C4_TallyInitialises ==
    [][(last'.op = "Tally" /\ TallyFits(last'.key) /\ ~Counted(last'.key))
       => /\ last'.err = Nil
          /\ last'.n = last'.num
          /\ CountedAfter(last'.key)
          /\ CounterAfter(last'.key) = Itoa(last'.num)]_vars

\* C5: Tally(key, offset) on a counter that holds the text of the integer n
\* returns n with no error, whatever offset is, and the counter still holds
\* the text of n afterwards.
C5_TallyReadsInitialised ==
    [][\A n \in Counters :
          (/\ last'.op = "Tally"
           /\ Counted(last'.key)
           /\ Counter(last'.key) = Itoa(n))
          => /\ last'.err = Nil
             /\ last'.n = n
             /\ CountedAfter(last'.key)
             /\ CounterAfter(last'.key) = Itoa(n)]_vars

\* C5 witness: Tally with offset MaxOffset returned the MaxInitTally stored.
C5_Witness ==
    /\ last.op = "Tally"
    /\ last.err = Nil
    /\ last.num = MaxOffset
    /\ last.n = MaxInitTally
    /\ Counted(last.key)

\* C6: TallyIncr(key) returns n+1 and TallyDecr(key) returns n-1 with no
\* error, n being the counter's value (0 with no stored record), and the
\* counter holds the text of the returned number afterwards.
C6_IncrDecrByOne ==
    [][(last'.op \in {"TallyIncr", "TallyDecr"} /\ TallyFits(last'.key))
       => LET n == IF Counted(last'.key) THEN Atoi(Counter(last'.key)) ELSE 0
              m == IF last'.op = "TallyIncr" THEN n + 1 ELSE n - 1
          IN /\ last'.err = Nil
             /\ last'.n = m
             /\ CountedAfter(last'.key)
             /\ CounterAfter(last'.key) = Itoa(m)]_vars

C8_SilentWithoutTransaction ==
    [][(last'.op \in {"Commit", "Rollback"} /\ tx # "active")
       => /\ last'.err = Nil
          /\ UNCHANGED <<db, tx, inTransaction, currBuckt, table, txTable, leaked>>]_vars

\* C9: Begin on a handle with no open connection returns an error and
\* leaves the handle not in a transaction.
C9_BeginNeedsConnection ==
    [][(last'.op = "Begin" /\ db = "nil")
       => (last'.err \notin {Nil, Panic} /\ ~inTransaction')]_vars

\* the error set owes a bucket, key and value, by the first limit they exceed
LimitErr(bucket, key, value) ==
    IF StrLen(bucket) > MaxBucketLen THEN ErrBucketIdTooLong
    ELSE IF StrLen(key) > MaxKeyLen THEN ErrKeyTooLong
    ELSE IF StrLen(value) > MaxValueLen THEN ErrValueTooLong
    ELSE Nil

\* C10: Set and SetMime called with a bucket, key or value beyond its size
\* limit return the error of the first limit exceeded (bucket, key, value),
\* and neither the committed rows nor those of a transaction still open
\* change.
C10_SizeLimits ==
    [][(last'.op \in {"Set", "SetMime"})
       => LET want == LimitErr(IF last'.op = "Set" THEN EffBucket ELSE mimeBuckt,
                               last'.key, last'.arg)
          IN want # Nil
             => /\ last'.err = want
                /\ table' = table
                /\ (tx' = "active" => txTable' = txTable)]_vars

\* C10 witness: a Set under a current bucket of 51 bytes returned
\* ErrBucketIdTooLong.
C10_Witness ==
    /\ last.op = "Set"
    /\ StrLen(currBuckt) > MaxBucketLen
    /\ last.err = ErrBucketIdTooLong


\* C11: after Del(key) has returned without error, Get(key) under the same
\* current bucket returns the empty value and GetMime(key) returns
\* "text/html", both without error
C11_DelThenGet ==
    [][(/\ last.op = "Del"
        /\ last.err = Nil
        /\ last'.op \in {"Get", "GetMime"}
        /\ last'.key = last.key)
       => (/\ last'.err = Nil
           /\ last'.val = IF last'.op = "Get" THEN EmptyStr ELSE defaultMime)]_vars

\* the bucket that b stands for as current bucket
Eff(b) == IF b = EmptyStr THEN defaultBuckt ELSE b

\* the rows of t outside bucket b
RowsOutside(t, b) == [x \in {y \in DOMAIN t : y[1] # b} |-> t[x]]

\* C12: a Set under the current bucket changes no record of any other
\* bucket, committed or visible to the handle, and Get(key) after SetBucket
\* to another bucket returns what it returned there before the Set
C12_OtherBucketsUntouched ==
    [][last'.op = "Set"
       => (/\ RowsOutside(table', EffBucket) = RowsOutside(table, EffBucket)
           /\ RowsOutside(VisibleRows', EffBucket) = RowsOutside(VisibleRows, EffBucket)
           /\ \A b \in Buckets, k \in Keys :
                  Eff(b) # EffBucket
                  => (/\ Get(SetBucket(Here', b).s, k).val = Get(SetBucket(Here, b).s, k).val
                      /\ Get(SetBucket(Here', b).s, k).err = Get(SetBucket(Here, b).s, k).err))]_vars

\* a Set has run under bucket "b" while bucket "default" holds a record
C12_Witness ==
    /\ last.op = "Set"
    /\ last.key = aKey
    /\ currBuckt = Str(<<"b">>)
    /\ HasRow(VisibleRows, defaultBuckt, aKey)

\* the operations C13 names
BucketOps == {"Get", "Set", "Del", "ListKeys",
              "Tally", "TallyIncr", "TallyDecr", "TallyReset"}

\* the call op(key, arg, num) made on a handle in state s
Do(s, op, key, arg, num) ==
    CASE op = "Get" -> Get(s, key)
      [] op = "Set" -> Set(s, key, arg)
      [] op = "Del" -> Del(s, key)
      [] op = "ListKeys" -> ListKeys(s, arg)
      [] op = "Tally" -> Tally(s, key, num)
      [] op = "TallyIncr" -> TallyIncr(s, key)
      [] op = "TallyDecr" -> TallyDecr(s, key)
      [] op = "TallyReset" -> TallyReset(s, key)

\* C13: with the current bucket "", each of Get, Set, Del, ListKeys, Tally,
\* TallyIncr, TallyDecr and TallyReset addresses the buckets, returns the
\* results and leaves the stored records that the same call does after
\* SetBucket("default")
C13_EmptyMeansDefault ==
    [][(/\ currBuckt = EmptyStr
        /\ last'.op \in BucketOps)
       => LET r == Do(SetBucket(Here, defaultBuckt).s,
                      last'.op, last'.key, last'.arg, last'.num)
          IN /\ last'.err = r.err
             /\ last'.val = r.val
             /\ last'.n = r.n
             /\ last'.keys = r.keys
             /\ last'.buckets = r.buckets
             /\ table' = r.s.table
             /\ txTable' = r.s.txTable]_vars

\* key begins with pattern, character for character
BeginsWith(key, pattern) ==
    /\ StrLen(pattern) <= StrLen(key)
    /\ SubSeq(Chars(key), 1, StrLen(pattern)) = Chars(pattern)

\* C14: a ListKeys(pattern) that returns no error returns exactly the keys
\* of the current bucket that begin with pattern taken literally, so the
\* empty list when there is none
C14_LiteralPrefix ==
    [][(/\ last'.op = "ListKeys"
        /\ last'.err = Nil)
       => last'.keys = {x[2] : x \in {y \in DOMAIN VisibleRows :
                                         /\ y[1] = EffBucket
                                         /\ BeginsWith(y[2], last'.arg)}}]_vars

\* C15: a Commit or Rollback called while p.tx is an open transaction
\* returns no error, leaves that transaction finished and the
\* in-transaction flag clear; the flag stays clear until the next Begin, and
\* while it is clear every data operation runs its statements on the plain
\* connection
C15_CommitEndsTransaction ==
    [][/\ (last'.op \in {"Commit", "Rollback"} /\ tx = "active")
          => (/\ last'.err = Nil
              /\ ~inTransaction'
              /\ tx' = "done"
              /\ txTable' = NoRows)
       /\ (~inTransaction /\ last'.op # "Begin") => ~inTransaction'
       /\ (~inTransaction /\ last'.op \in DataOps) => last'.route \subseteq {"db"}]_vars

\* a data operation has run on the plain connection after a Commit or
\* Rollback that ended the transaction
C15_Witness ==
    /\ last.op \in DataOps
    /\ last.route = {"db"}
    /\ tx = "done"
    /\ ~inTransaction

\* the backend transactions the handle has begun and neither committed nor
\* rolled back
Unfinished == (IF tx = "active" THEN 1 ELSE 0) + leaked

\* C16: a handle owns at most one unfinished backend transaction
C16_OneTransaction == Unfinished <= 1

\* C17: no call has crashed the process, and whenever the in-transaction
\* flag is set the handle holds a transaction handle
C17_NoCrash ==
    /\ alive
    /\ inTransaction => tx # "nil"

\* C18: Close returns nil whatever the handle holds; it leaves the handle
\* with no connection and no transaction handle, runs no statement and
\* leaves the committed rows as they were, and a second Close changes nothing
C18_CloseAlways ==
    [][last'.op = "Close"
       => (/\ last'.err = Nil
           /\ db' = "nil"
           /\ tx' = "nil"
           /\ last'.route = {}
           /\ table' = table
           /\ Close(Here') = Res0(Here'))]_vars

\* Close has been called in a transaction scope with deletes pending: the
\* handle is closed and the committed rows are those of the scope's Begin
C18_Witness ==
    /\ last.op = "Close"
    /\ scope.open
    /\ scope.view # scope.base
    /\ table = scope.base
    /\ db = "nil"
    /\ tx = "nil"

\* the operations that run a statement whatever their arguments
QueryOps == {"Get", "GetMime", "Del", "ListKeys"}

\* C19: a data operation called with no connection open opens one and runs
\* on it; Open on an open handle changes nothing; with auto-close set the
\* handle has no connection after a data operation, and with auto-close
\* unset it has one after a data operation and keeps it at every call but
\* Close
C19_ConnectionLifecycle ==
    [][/\ (last'.op \in DataOps /\ db = "nil")
          => (/\ last'.err # ErrDSN
              /\ last'.op \in QueryOps => last'.route = {"db"})
       /\ (last'.op = "Open" /\ db = "open")
          => (/\ last'.err = Nil
              /\ UNCHANGED <<db, tx, inTransaction, currBuckt, autoClose,
                             table, txTable, leaked>>)
       /\ (last'.op \in DataOps /\ autoClose) => db' = "nil"
       /\ (last'.op \in DataOps /\ ~autoClose) => db' = "open"
       /\ (db = "open" /\ ~autoClose /\ last'.op # "Close") => db' = "open"]_vars

\* with auto-close set, a data operation called on a closed handle has run
\* its statement on a connection and left the handle closed
C19_Witness ==
    /\ last.op \in QueryOps
    /\ last.route = {"db"}
    /\ autoClose
    /\ db = "nil"

\* C20: Open called on a closed handle while the backend is unreachable or
\* the DSN is malformed returns an error and leaves the handle without a
\* connection
C20_OpenFails ==
    [][(/\ last'.op = "Open"
        /\ db = "nil"
        /\ (~reachable \/ ~dsnOK))
       => (/\ last'.err # Nil
           /\ db' = "nil")]_vars

\* every record of t stored under a tally key holds the text of an integer
TallyRowsParse(t) ==
    \A x \in DOMAIN t : BeginsWith(x[2], tallyPrefix) => AtoiOK(t[x])

C24_MimeIgnoresBucket ==
    [][/\ (/\ last'.op = "SetMime"
           /\ LimitErr(mimeBuckt, last'.key, last'.arg) = Nil)
          => (/\ last'.err = Nil
              /\ \A b \in Buckets :
                     /\ GetMime(SetBucket(Here', b).s, last'.key).err = Nil
                     /\ GetMime(SetBucket(Here', b).s, last'.key).val = last'.arg)
       /\ (/\ last'.op = "Del"
           /\ last'.err = Nil)
          => \A b \in Buckets :
                /\ GetMime(SetBucket(Here', b).s, last'.key).err = Nil
                /\ GetMime(SetBucket(Here', b).s, last'.key).val = defaultMime]_vars

TallyOps == {"Tally", "TallyIncr", "TallyDecr", "TallyReset"}

\* the errors of the size checks of set
LimitErrs == {ErrBucketIdTooLong, ErrKeyTooLong, ErrValueTooLong}

\* C25: under a current bucket within its limit, a tally operation called
\* with a key of up to 286 bytes returns none of the size errors, and called
\* with a key of 287 to 300 bytes it returns ErrKeyTooLong and changes
\* neither the committed rows nor those of a transaction still open
C25_TallyKeyLimit ==
    [][(/\ last'.op \in TallyOps
        /\ StrLen(currBuckt) <= MaxBucketLen)
       => (/\ StrLen(last'.key) <= MaxTallyKeyLen => last'.err \notin LimitErrs
           /\ (/\ StrLen(last'.key) > MaxTallyKeyLen
               /\ StrLen(last'.key) <= MaxKeyLen)
              => (/\ last'.err = ErrKeyTooLong
                  /\ table' = table
                  /\ (tx' = "active" => txTable' = txTable)))]_vars

\* TallyIncr called with a key of 287 bytes has returned ErrKeyTooLong
C25_Witness ==
    /\ last.op = "TallyIncr"
    /\ StrLen(last.key) = MaxTallyKeyLen + 1
    /\ last.err = ErrKeyTooLong

\* C23: for a Del that runs outside a transaction, if the backend executes
\* the delete of the data record and fails the delete of the mime record,
\* Del returns that error, the data record is deleted and the mime records
\* are as they were; if the backend fails the delete of the data record, Del
\* returns that error and the stored records are as they were
C23_DelPartialFailure ==
    [][(/\ last'.op = "Del"
        /\ dsnOK
        /\ ~(db # "nil" /\ inTransaction))
       => (/\ (reachable /\ ~reachable')
              => (/\ last'.err = ErrConn
                  /\ table' = DeleteRow(table, EffBucket, last'.key)
                  /\ RowsOutside(table', EffBucket) = RowsOutside(table, EffBucket))
           /\ ~reachable
              => (/\ last'.err = ErrConn
                  /\ table' = table))]_vars

\* a Del of k outside a transaction has run its first delete and returned
\* the error of its second: no data record of k, and its mime record stored
C23_Witness ==
    /\ last.op = "Del"
    /\ last.key = aKey
    /\ last.err = ErrConn
    /\ last.route = {"db"}
    /\ currBuckt = defaultBuckt
    /\ ~HasRow(table, defaultBuckt, aKey)
    /\ HasRow(table, mimeBuckt, aKey)

\* the number a counter record of t stands for, 0 where there is none
CounterNum(t) ==
    IF HasRow(t, defaultBuckt, tallyKey(aKey))
    THEN Atoi(t[<<defaultBuckt, tallyKey(aKey)>>])
    ELSE 0

\* C21: when two handles have each run TallyIncr(key) once without a
\* transaction and the two calls did not interleave, both calls have
\* returned no error and the counter is 2 higher than it started
C21_SerialAddsTwo ==
    (/\ \A h \in Handles : race.call[h].pc = "done"
     /\ ~race.overlap)
    => (/\ \A h \in Handles : race.call[h].err = Nil
        /\ CounterNum(table) = CounterNum(race.base) + 2)

====
